---------------------------- MODULE Spec2Model ----------------------------
(***************************************************************************)
(* Three testbench drivers (4-bit adder, synchronous-reset 4-bit register, *)
(* decimal timer) run against a simulated circuit.  Every testbench is run *)
(* twice in lockstep: run 1 drives the circuit under test, whose power-on  *)
(* register contents are unknown and whose outputs may be defective; run 2 *)
(* drives the reference circuit of the specification.  The testbench's     *)
(* control flow never depends on the circuit, so both runs share the       *)
(* program counter and the loop indices.                                   *)
(***************************************************************************)
EXTENDS Integers, Sequences, FiniteSets

VARIABLES
    tb,            \* which testbench runs: "adder", "reg" or "timer"
    pc,            \* position in main()
    a, b,          \* the adder testbench's loop variables
    i,             \* loop variable of the register / timer loops
    test_count,    \* tb_ten_timer.cpp: int test_count
    nvec,          \* observation: stimulus vectors (clock periods) applied so far
    dut,           \* run -> the simulated model (inputs, registers, outputs)
    pass,          \* run -> the verdict flag (pass / test_passed)
    mism,          \* observation: run -> some comparison made by the code failed
    deviated,      \* observation: an output of run 1 differed from the reference's
    frozen_count,  \* run -> tb_ten_timer.cpp: int frozen_count
    expected,      \* run -> expected value of the last comparison (-1: none made)
    exit_status    \* run -> value returned by main() (-1: still running)

vars == <<tb, pc, a, b, i, test_count, nvec, dut, pass, mism, deviated,
          frozen_count, expected, exit_status>>

\* Largest defect added to an output of the circuit under test at one evaluation.
MaxGlitch == 3

Runs == {1, 2}
Nibble == 0 .. 15
Glitches == 0 .. MaxGlitch

\* The defect applies to the circuit under test only; run 2 is the reference.
G(r, g) == IF r = 1 THEN g ELSE 0

(***************************************************************************)
(* Bitwise AND of two naturals, as C's & computes it.                      *)
(***************************************************************************)
RECURSIVE BitAnd(_, _)
BitAnd(x, y) ==
    IF x = 0 \/ y = 0 THEN 0
    ELSE (IF x % 2 = 1 /\ y % 2 = 1 THEN 1 ELSE 0) + 2 * BitAnd(x \div 2, y \div 2)

(***************************************************************************)
(* Reference circuits and the simulation engine's evaluation step.         *)
(***************************************************************************)
\* Adder oracle: expected = (a + b) mod 2^width.
AdderRef(x, y) == (x + y) % 16

\* Register oracle: 0 if reset asserted at the edge, else the data value.
RegisterRule(rst, d) == IF rst = 1 THEN 0 ELSE d

\* Decimal counter oracle: 0 on reset-count, +1 mod 10 when enabled, else hold.
CounterRule(prev, en, rc) ==
    IF rc = 1 THEN 0 ELSE IF en = 1 THEN (prev + 1) % 10 ELSE prev

\* Overflow oracle: 1 exactly when the previous count was 9 and enabled.
OverflowRule(prev, en) == IF prev = 9 /\ en = 1 THEN 1 ELSE 0

\* eval() detects a rising edge by comparing the clock with its value at the
\* previous eval().
RisingEdge(d) == d.clock = 1 /\ d.last = 0

\* eval() of the combinational adder: no clock, outputs follow the inputs.
AdderEval(d, g) == [d EXCEPT !.io_c = (AdderRef(d.io_a, d.io_b) + g) % 16]

\* eval() of the register: commits on a rising edge, then settles the output.
RegEval(d, g) ==
    LET edge == RisingEdge(d)
        q    == IF edge
                THEN (IF d.reset = 1 THEN 0 ELSE RegisterRule(d.io_reset, d.io_d))
                ELSE d.q
    IN  [d EXCEPT !.q = q, !.last = d.clock, !.rose = edge,
                  !.rstEdge = @ \/ (edge /\ d.reset = 1),
                  !.io_q = (q + g) % 16]

\* eval() of the decimal timer.
TimerEval(d, g, h) ==
    LET edge == RisingEdge(d)
        c    == IF edge
                THEN (IF d.reset = 1 THEN 0
                      ELSE CounterRule(d.count, d.io_enable, d.io_reset_count))
                ELSE d.count
        o    == IF edge
                THEN (IF d.reset = 1 THEN 0 ELSE OverflowRule(d.count, d.io_enable))
                ELSE d.ovf
    IN  [d EXCEPT !.count = c, !.ovf = o, !.last = d.clock, !.rose = edge,
                  !.rstEdge = @ \/ (edge /\ d.reset = 1),
                  !.io_count = (c + g) % 16,
                  !.io_overflow = (o + h) % 2]

\* The model objects right after construction.  The registers of the circuit
\* under test hold unknown values until a reset edge; the reference starts at 0.
NewAdder == [io_a |-> 0, io_b |-> 0, io_c |-> 0]

NewReg(q0, l0) ==
    [clock |-> 0, reset |-> 0, io_reset |-> 0, io_d |-> 0, q |-> q0,
     last |-> l0, rose |-> FALSE, rstEdge |-> FALSE, io_q |-> q0]

NewTimer(c0, l0) ==
    [clock |-> 0, reset |-> 0, io_enable |-> 0, io_reset_count |-> 0,
     count |-> c0, ovf |-> 0, last |-> l0, rose |-> FALSE, rstEdge |-> FALSE,
     io_count |-> c0, io_overflow |-> 0]

(***************************************************************************)
(* The comparator: the verdict flag is cleared on a mismatch.              *)
(***************************************************************************)
VerdictLast(p, m) == ~m

Verdict(p, m) == IF m THEN FALSE ELSE p

\* Both runs compare their own observation obs[r] against their own exp[r].
Compare(obs, exp) ==
    /\ expected' = exp
    /\ pass' = [r \in Runs |-> Verdict(pass[r], obs[r] # exp[r])]
    /\ mism' = [r \in Runs |-> mism[r] \/ obs[r] # exp[r]]
    /\ deviated' = (deviated \/ obs[1] # obs[2])

NoCompare == UNCHANGED <<expected, pass, mism, deviated>>

(***************************************************************************)
(* Initial state: main() entered, the model constructed.                   *)
(***************************************************************************)
Init ==
    /\ tb \in {"adder", "reg", "timer"}
    /\ pc = (CASE tb = "adder" -> "adder_apply"
               [] tb = "reg"   -> "reg_init_low"
               [] tb = "timer" -> "tim_init")
    /\ a = 0 /\ b = 0 /\ i = 0 /\ test_count = 0 /\ nvec = 0
    /\ \E q0 \in Nibble, l0 \in {0, 1}, g0 \in Nibble :
         dut = (CASE tb = "adder" -> [r \in Runs |-> NewAdder]
                  [] tb = "reg"   -> [r \in Runs |-> IF r = 1 THEN NewReg(q0, l0)
                                                     ELSE NewReg(g0, 0)]
                  [] tb = "timer" -> [r \in Runs |-> IF r = 1 THEN NewTimer(q0, l0)
                                                     ELSE NewTimer(0, 0)])
    /\ pass = [r \in Runs |-> TRUE]
    /\ mism = [r \in Runs |-> FALSE]
    /\ deviated = FALSE
    /\ frozen_count = [r \in Runs |-> 0]
    /\ expected = [r \in Runs |-> -1]
    /\ exit_status = [r \in Runs |-> -1]

(***************************************************************************)
(* 4-bit adder testbench.                                                  *)
(***************************************************************************)
ExpectedCNoMask(x, y) == x + y

\* int expected_c = (a + b) & 0xF;
ExpectedC(x, y) == BitAnd(x + y, 15)

\* top->io_a = a; top->io_b = b; top->eval();
AdderApply ==
    /\ pc = "adder_apply"
    /\ \E g \in Glitches :
         dut' = [r \in Runs |->
                   AdderEval([dut[r] EXCEPT !.io_a = a, !.io_b = b], G(r, g))]
    /\ nvec' = nvec + 1
    /\ pc' = "adder_check"
    /\ UNCHANGED <<tb, a, b, i, test_count, pass, mism, deviated,
                   frozen_count, expected, exit_status>>

AdderCheckFailFast ==
    /\ pc = "adder_check"
    /\ Compare([r \in Runs |-> dut[r].io_c], [r \in Runs |-> ExpectedC(a, b)])
    /\ IF dut[1].io_c # ExpectedC(a, b)
       THEN pc' = "adder_done" /\ UNCHANGED <<a, b>>
       ELSE IF b + 1 < 16 THEN a' = a /\ b' = b + 1 /\ pc' = "adder_apply"
       ELSE IF a + 1 < 16 THEN a' = a + 1 /\ b' = 0 /\ pc' = "adder_apply"
       ELSE a' = a + 1 /\ b' = b + 1 /\ pc' = "adder_done"
    /\ UNCHANGED <<tb, i, test_count, nvec, dut, frozen_count, exit_status>>

\* if (top->io_c != expected_c) { ...; pass = false; }  then ++b / ++a.
AdderCheck ==
    /\ pc = "adder_check"
    /\ Compare([r \in Runs |-> dut[r].io_c], [r \in Runs |-> ExpectedC(a, b)])
    /\ IF b + 1 < 16 THEN a' = a /\ b' = b + 1 /\ pc' = "adder_apply"
       ELSE IF a + 1 < 16 THEN a' = a + 1 /\ b' = 0 /\ pc' = "adder_apply"
       ELSE a' = a + 1 /\ b' = b + 1 /\ pc' = "adder_done"
    /\ UNCHANGED <<tb, i, test_count, nvec, dut, frozen_count, exit_status>>

\* if (pass) print; delete top; return 0;
AdderDone ==
    /\ pc = "adder_done"
    /\ exit_status' = [r \in Runs |-> 0]
    /\ pc' = "done"
    /\ UNCHANGED <<tb, a, b, i, test_count, nvec, dut, pass, mism, deviated,
                   frozen_count, expected>>

AdderNext == AdderApply \/ AdderCheck \/ AdderDone

(***************************************************************************)
(* Synchronous-reset 4-bit register testbench.                             *)
(***************************************************************************)
test_cases_wrong ==
    << [io_reset |-> 1, d |-> 10, expected_q |-> 0],
       [io_reset |-> 0, d |-> 10, expected_q |-> 5],
       [io_reset |-> 1, d |-> 5,  expected_q |-> 0],
       [io_reset |-> 0, d |-> 5,  expected_q |-> 5] >>

\* struct TestCase { bool io_reset; uint8_t d; uint8_t expected_q; } test_cases[4]
test_cases ==
    << [io_reset |-> 1, d |-> 10, expected_q |-> 0],
       [io_reset |-> 0, d |-> 10, expected_q |-> 10],
       [io_reset |-> 1, d |-> 5,  expected_q |-> 0],
       [io_reset |-> 0, d |-> 5,  expected_q |-> 5] >>

\* Initial reset: clock = 0; reset = 1; io_reset = 1; eval();
RegInitLow ==
    /\ pc = "reg_init_low"
    /\ \E g \in Glitches :
         dut' = [r \in Runs |->
                   RegEval([dut[r] EXCEPT !.clock = 0, !.reset = 1, !.io_reset = 1],
                           G(r, g))]
    /\ pc' = "reg_init_high"
    /\ NoCompare
    /\ UNCHANGED <<tb, a, b, i, test_count, nvec, frozen_count, exit_status>>

\* clock = 1; eval(); clock = 0; reset = 0;   (no eval() follows clock = 0)
RegInitHigh ==
    /\ pc = "reg_init_high"
    /\ \E g \in Glitches :
         dut' = [r \in Runs |->
                   [RegEval([dut[r] EXCEPT !.clock = 1], G(r, g))
                      EXCEPT !.clock = 0, !.reset = 0]]
    /\ i' = 0
    /\ pc' = "reg_rise"
    /\ NoCompare
    /\ UNCHANGED <<tb, a, b, test_count, nvec, frozen_count, exit_status>>

\* io_reset = test_cases[i].io_reset; io_d = test_cases[i].d; clock = 1; eval();
RegRise ==
    /\ pc = "reg_rise"
    /\ \E g \in Glitches :
         dut' = [r \in Runs |->
                   RegEval([dut[r] EXCEPT !.io_reset = test_cases[i + 1].io_reset,
                                          !.io_d = test_cases[i + 1].d,
                                          !.clock = 1],
                           G(r, g))]
    /\ nvec' = nvec + 1
    /\ pc' = "reg_fall"
    /\ NoCompare
    /\ UNCHANGED <<tb, a, b, i, test_count, frozen_count, exit_status>>

\* clock = 0; eval();
RegFall ==
    /\ pc = "reg_fall"
    /\ \E g \in Glitches :
         dut' = [r \in Runs |-> RegEval([dut[r] EXCEPT !.clock = 0], G(r, g))]
    /\ pc' = "reg_check"
    /\ NoCompare
    /\ UNCHANGED <<tb, a, b, i, test_count, nvec, frozen_count, exit_status>>

\* if (dut->io_q != test_cases[i].expected_q) { ...; test_passed = false; }  i++
RegCheck ==
    /\ pc = "reg_check"
    /\ Compare([r \in Runs |-> dut[r].io_q],
               [r \in Runs |-> test_cases[i + 1].expected_q])
    /\ i' = i + 1
    /\ pc' = IF i + 1 < 4 THEN "reg_rise" ELSE "reg_done"
    /\ UNCHANGED <<tb, a, b, test_count, nvec, dut, frozen_count, exit_status>>

\* if (test_passed) return 0; else return 1;
RegDone ==
    /\ pc = "reg_done"
    /\ exit_status' = [r \in Runs |-> IF pass[r] THEN 0 ELSE 1]
    /\ pc' = "done"
    /\ UNCHANGED <<tb, a, b, i, test_count, nvec, dut, pass, mism, deviated,
                   frozen_count, expected>>

RegNext == RegInitLow \/ RegInitHigh \/ RegRise \/ RegFall \/ RegCheck \/ RegDone

(***************************************************************************)
(* Decimal timer testbench.                                                *)
(***************************************************************************)
\* One eval() of both timer models; w[r] is model r with the inputs just written.
TimerStep(w) ==
    \E g \in Glitches, h \in {0, 1} :
        dut' = [r \in Runs |-> TimerEval(w[r], G(r, g), G(r, h))]

\* clock = 0; reset = 1; io_enable = 0; io_reset_count = 0; eval();
TimerInit ==
    /\ pc = "tim_init"
    /\ LET w == [r \in Runs |-> [dut[r] EXCEPT !.clock = 0, !.reset = 1,
                                                !.io_enable = 0, !.io_reset_count = 0]]
       IN  TimerStep(w)
    /\ pc' = "tim_release"
    /\ NoCompare
    /\ UNCHANGED <<tb, a, b, i, test_count, nvec, frozen_count, exit_status>>

\* reset = 0; eval();
TimerRelease ==
    /\ pc = "tim_release"
    /\ LET w == [r \in Runs |-> [dut[r] EXCEPT !.reset = 0]] IN TimerStep(w)
    /\ pc' = "t1_setup"
    /\ NoCompare
    /\ UNCHANGED <<tb, a, b, i, test_count, nvec, frozen_count, exit_status>>

\* Test 1: io_enable = 1; io_reset_count = 0; if (io_count != 0) pass = false;
T1Setup ==
    /\ pc = "t1_setup"
    /\ dut' = [r \in Runs |-> [dut[r] EXCEPT !.io_enable = 1, !.io_reset_count = 0]]
    /\ Compare([r \in Runs |-> dut[r].io_count], [r \in Runs |-> 0])
    /\ i' = 0
    /\ pc' = "t1_rise"
    /\ UNCHANGED <<tb, a, b, test_count, nvec, frozen_count, exit_status>>

\* clock = 1; eval();
T1Rise ==
    /\ pc = "t1_rise"
    /\ LET w == [r \in Runs |-> [dut[r] EXCEPT !.clock = 1]] IN TimerStep(w)
    /\ nvec' = nvec + 1
    /\ pc' = "t1_fall"
    /\ NoCompare
    /\ UNCHANGED <<tb, a, b, i, test_count, frozen_count, exit_status>>

\* clock = 0; eval();
T1Fall ==
    /\ pc = "t1_fall"
    /\ LET w == [r \in Runs |-> [dut[r] EXCEPT !.clock = 0]] IN TimerStep(w)
    /\ pc' = "t1_check"
    /\ NoCompare
    /\ UNCHANGED <<tb, a, b, i, test_count, nvec, frozen_count, exit_status>>

T1ExpectedNoWrap(k) == k + 1

\* int expected_count = (i + 1) % 10;
T1Expected(k) == (k + 1) % 10

\* if (io_count != expected_count) pass = false;  test_count++;  i++
T1Check ==
    /\ pc = "t1_check"
    /\ Compare([r \in Runs |-> dut[r].io_count], [r \in Runs |-> T1Expected(i)])
    /\ test_count' = test_count + 1
    /\ IF i + 1 < 20 THEN i' = i + 1 /\ pc' = "t1_rise"
       ELSE i' = i + 1 /\ pc' = "t2_setup"
    /\ UNCHANGED <<tb, a, b, nvec, dut, frozen_count, exit_status>>

\* Test 2: io_enable = 0; int frozen_count = dut->io_count;
T2Setup ==
    /\ pc = "t2_setup"
    /\ dut' = [r \in Runs |-> [dut[r] EXCEPT !.io_enable = 0]]
    /\ frozen_count' = [r \in Runs |-> dut[r].io_count]
    /\ i' = 0
    /\ pc' = "t2_rise"
    /\ NoCompare
    /\ UNCHANGED <<tb, a, b, test_count, nvec, exit_status>>

T2Rise ==
    /\ pc = "t2_rise"
    /\ LET w == [r \in Runs |-> [dut[r] EXCEPT !.clock = 1]] IN TimerStep(w)
    /\ nvec' = nvec + 1
    /\ pc' = "t2_fall"
    /\ NoCompare
    /\ UNCHANGED <<tb, a, b, i, test_count, frozen_count, exit_status>>

T2Fall ==
    /\ pc = "t2_fall"
    /\ LET w == [r \in Runs |-> [dut[r] EXCEPT !.clock = 0]] IN TimerStep(w)
    /\ pc' = "t2_check"
    /\ NoCompare
    /\ UNCHANGED <<tb, a, b, i, test_count, nvec, frozen_count, exit_status>>

\* if (io_count != frozen_count) pass = false;  i++
T2Check ==
    /\ pc = "t2_check"
    /\ Compare([r \in Runs |-> dut[r].io_count], frozen_count)
    /\ IF i + 1 < 5 THEN i' = i + 1 /\ pc' = "t2_rise"
       ELSE i' = i + 1 /\ pc' = "t3_rise"
    /\ UNCHANGED <<tb, a, b, test_count, nvec, dut, frozen_count, exit_status>>

\* Test 3: io_enable = 1; io_reset_count = 1; clock = 1; eval();
T3Rise ==
    /\ pc = "t3_rise"
    /\ LET w == [r \in Runs |-> [dut[r] EXCEPT !.io_enable = 1, !.io_reset_count = 1,
                                                !.clock = 1]]
       IN  TimerStep(w)
    /\ nvec' = nvec + 1
    /\ pc' = "t3_fall"
    /\ NoCompare
    /\ UNCHANGED <<tb, a, b, i, test_count, frozen_count, exit_status>>

T3Fall ==
    /\ pc = "t3_fall"
    /\ LET w == [r \in Runs |-> [dut[r] EXCEPT !.clock = 0]] IN TimerStep(w)
    /\ pc' = "t3_check"
    /\ NoCompare
    /\ UNCHANGED <<tb, a, b, i, test_count, nvec, frozen_count, exit_status>>

\* if (io_count != 0) pass = false;  io_reset_count = 0;
T3Check ==
    /\ pc = "t3_check"
    /\ Compare([r \in Runs |-> dut[r].io_count], [r \in Runs |-> 0])
    /\ dut' = [r \in Runs |-> [dut[r] EXCEPT !.io_reset_count = 0]]
    /\ pc' = "t4_reset_rise"
    /\ UNCHANGED <<tb, a, b, i, test_count, nvec, frozen_count, exit_status>>

\* Test 4: io_reset_count = 1; clock = 1; eval();
T4ResetRise ==
    /\ pc = "t4_reset_rise"
    /\ LET w == [r \in Runs |-> [dut[r] EXCEPT !.io_reset_count = 1, !.clock = 1]] IN TimerStep(w)
    /\ nvec' = nvec + 1
    /\ pc' = "t4_reset_fall"
    /\ NoCompare
    /\ UNCHANGED <<tb, a, b, i, test_count, frozen_count, exit_status>>

\* clock = 0; eval(); io_reset_count = 0;
T4ResetFall ==
    /\ pc = "t4_reset_fall"
    /\ \E g \in Glitches, h \in {0, 1} :
         dut' = [r \in Runs |->
                   [TimerEval([dut[r] EXCEPT !.clock = 0], G(r, g), G(r, h))
                      EXCEPT !.io_reset_count = 0]]
    /\ i' = 0
    /\ pc' = "t4_rise"
    /\ NoCompare
    /\ UNCHANGED <<tb, a, b, test_count, nvec, frozen_count, exit_status>>

T4Rise ==
    /\ pc = "t4_rise"
    /\ LET w == [r \in Runs |-> [dut[r] EXCEPT !.clock = 1]] IN TimerStep(w)
    /\ nvec' = nvec + 1
    /\ pc' = "t4_fall"
    /\ NoCompare
    /\ UNCHANGED <<tb, a, b, i, test_count, frozen_count, exit_status>>

T4Fall ==
    /\ pc = "t4_fall"
    /\ LET w == [r \in Runs |-> [dut[r] EXCEPT !.clock = 0]] IN TimerStep(w)
    /\ pc' = "t4_check"
    /\ NoCompare
    /\ UNCHANGED <<tb, a, b, i, test_count, nvec, frozen_count, exit_status>>

\* if (io_count == 9 && io_overflow != 1) pass = false;  i++
\* The overflow output is compared against 1 only when io_count reads 9.
T4Check ==
    /\ pc = "t4_check"
    /\ LET checked(r) == dut[r].io_count = 9
           bad(r)     == checked(r) /\ dut[r].io_overflow # 1
       IN  /\ expected' = [r \in Runs |-> IF checked(r) THEN 1 ELSE -1]
           /\ pass' = [r \in Runs |-> Verdict(pass[r], bad(r))]
           /\ mism' = [r \in Runs |-> mism[r] \/ bad(r)]
           /\ deviated' = (deviated \/ dut[1].io_count # dut[2].io_count
                                    \/ dut[1].io_overflow # dut[2].io_overflow)
    /\ IF i + 1 < 10 THEN i' = i + 1 /\ pc' = "t4_rise"
       ELSE i' = i + 1 /\ pc' = "tim_done"
    /\ UNCHANGED <<tb, a, b, test_count, nvec, dut, frozen_count, exit_status>>

\* print the summary; delete dut; return pass ? 0 : 1;
TimerDone ==
    /\ pc = "tim_done"
    /\ exit_status' = [r \in Runs |-> IF pass[r] THEN 0 ELSE 1]
    /\ pc' = "done"
    /\ UNCHANGED <<tb, a, b, i, test_count, nvec, dut, pass, mism, deviated,
                   frozen_count, expected>>

TimerNext ==
    \/ TimerInit \/ TimerRelease
    \/ T1Setup \/ T1Rise \/ T1Fall \/ T1Check
    \/ T2Setup \/ T2Rise \/ T2Fall \/ T2Check
    \/ T3Rise \/ T3Fall \/ T3Check
    \/ T4ResetRise \/ T4ResetFall \/ T4Rise \/ T4Fall \/ T4Check
    \/ TimerDone

Next == AdderNext \/ RegNext \/ TimerNext

Spec == Init /\ [][Next]_vars

\* main() runs to completion: no step waits on anything.
FairSpec == Spec /\ WF_vars(Next)

(***************************************************************************)
(* Properties.                                                             *)
(***************************************************************************)
\* Number of stimulus vectors each testbench applies.
VectorCount ==
    CASE tb = "adder" -> 16 * 16
      [] tb = "reg"   -> 4
      [] tb = "timer" -> 20 + 5 + 1 + 1 + 10

\* Positions of the timer testbench up to the end of Test 3.
TimerTests1to3 ==
    {"tim_init", "tim_release", "t1_setup", "t1_rise", "t1_fall", "t1_check",
     "t2_setup", "t2_rise", "t2_fall", "t2_check", "t3_rise", "t3_fall",
     "t3_check", "t4_reset_rise"}

\* Positions reached right after the clock-high eval() of a stimulus vector.
AfterRise == {"reg_fall", "t1_fall", "t2_fall", "t3_fall", "t4_reset_fall", "t4_fall"}

\* C1: at the end of every testbench run the exit status is 0 if and only if
\* no comparison of an observed output against its expected value failed.
C1_ExitReflectsVerdict ==
    pc = "done" => ((exit_status[1] = 0) <=> ~mism[1])

\* C2: the adder testbench applies the pairs (a, b) of 0..15 x 0..15 in order,
\* each exactly once (vector number 16a + b), compares io_c against
\* (a + b) mod 16, and ends after 256 vectors with the verdict true exactly
\* when the circuit's io_c equalled (a + b) mod 16 on every pair.
C2_AdderExhaustive ==
    /\ ExpectedC(7, 9) = 0 /\ ExpectedC(3, 2) = 5
    /\ tb = "adder" =>
         /\ pass[1] <=> ~deviated
         /\ pc = "adder_apply" => a \in 0 .. 15 /\ b \in 0 .. 15 /\ nvec = 16 * a + b
         /\ pc = "adder_check" =>
              /\ a \in 0 .. 15 /\ b \in 0 .. 15 /\ nvec = 16 * a + b + 1
              /\ dut[1].io_a = a /\ dut[1].io_b = b
              /\ ExpectedC(a, b) = (a + b) % 16
              /\ dut[2].io_c = ExpectedC(a, b)
         /\ pc \in {"adder_done", "done"} => nvec = 256

C2_Witness ==
    tb = "adder" /\ pc = "done" /\ nvec = 256 /\ ~pass[1] /\ deviated

\* C3: along the timer testbench's stimulus (20 enabled periods, 5 disabled
\* periods, 1 reset-count period) the values compared in Tests 1-3 are the
\* values the counter rule yields from count 0, so the circuit following the
\* rule records no mismatch in Tests 1-3.
C3_CounterOracle ==
    tb = "timer" =>
        /\ pc = "t1_setup" => dut[2].count = 0
        /\ pc = "t1_check" => T1Expected(i) = dut[2].count
        /\ pc = "t2_check" => frozen_count[2] = dut[2].count
        /\ pc = "t3_check" => dut[2].count = 0
        /\ pc \in TimerTests1to3 => pass[2] /\ dut[2].io_count = dut[2].count

C3_Witness ==
    tb = "timer" /\ pc = "t4_reset_rise" /\ pass[2] /\ expected[2] = 0
        /\ test_count = 20 /\ nvec = 26

\* C4: over the 10 enabled edges of Test 4, starting from count 0, the count
\* returns to 0 and overflow is asserted exactly once, on the 10th edge (the
\* one where the count goes from 9 back to 0); the circuit with this overflow
\* timing passes the timer testbench's Test 4.
C4_RuleCircuitPassesTest4 ==
    tb = "timer" =>
        /\ pc = "t4_check" =>
              /\ dut[2].io_count = (i + 1) % 10
              /\ dut[2].io_overflow = 1 <=> i + 1 = 10
        /\ pass[2]

\* C5: every entry of the register testbench's table has
\* expected_q = (io_reset ? 0 : d), and the register obeying that rule passes
\* all four table-driven checks, whatever it held at power-on.
C5_RegisterTable ==
    /\ \A k \in 1 .. 4 :
         test_cases[k].expected_q = RegisterRule(test_cases[k].io_reset, test_cases[k].d)
    /\ tb = "reg" =>
         /\ pass[2]
         /\ pc = "reg_check" => dut[2].io_q = test_cases[i + 1].expected_q
         /\ pc = "done" => exit_status[2] = 0 /\ i = 4

C5_Witness ==
    tb = "reg" /\ pc = "done" /\ pass[2] /\ expected[2] = 5 /\ dut[2].io_q = 5

\* C6: the verdict flag is true at the start of the run, is false from the
\* first failed comparison on, and no later step sets it back to true.
C6_VerdictMonotone ==
    /\ pass[1]
    /\ [][ /\ ~pass[1] => ~pass'[1]
           /\ pass'[1] <=> ~mism'[1] ]_vars

\* The flag is still false at the end of a run whose last comparison matched.
C6_Witness ==
    tb = "reg" /\ pc = "done" /\ ~pass[1] /\ dut[1].io_q = expected[1]

\* C7: every run reaches its terminal step, having applied the full number of
\* stimulus vectors (256, 4, 20+5+1+1+10) whether or not a mismatch occurred.
C7_NoFailFast ==
    /\ <>(pc = "done")
    /\ [](pc = "done" => nvec = VectorCount)

C7_Witness ==
    pc = "done" /\ mism[1] /\ nvec = VectorCount

\* C8: at the clock-high eval() of every stimulus vector of the sequential
\* testbenches the engine observes a rising edge.
C8_EveryVectorSeesRisingEdge ==
    pc \in AfterRise => dut[1].rose

\* C9: on entry to the stimulus phase the circuit has been evaluated through
\* a rising clock edge with reset asserted, so its register holds 0.
C9_PowerOnReset ==
    /\ tb = "reg" /\ pc = "reg_rise" /\ i = 0 => dut[1].rstEdge /\ dut[1].q = 0
    /\ tb = "timer" /\ pc = "t1_setup" => dut[1].rstEdge /\ dut[1].count = 0

\* C10: the expected value of every comparison is the same in two runs of the
\* same testbench against circuits that produce different outputs.
C10_ExpectedIndependentOfCircuit ==
    expected[1] = expected[2]

=============================================================================
